---- MODULE Spec2Model ----
(***************************************************************************)
(* HypeDuel SDK: the webhook dispatch entry point (HypeDuelSDK), its       *)
(* session registry (activeMatches) and the connection session             *)
(* (MatchClient) over a `ws` WebSocket transport.                          *)
(*                                                                         *)
(* Node runs everything on one event loop, so each action below is one     *)
(* event-loop task together with the promise continuations it releases:    *)
(* a call of a public method, a transport event, or the settling of the    *)
(* user's onMatchStart callback.                                           *)
(***************************************************************************)
EXTENDS Naturals, Sequences, FiniteSets

VARIABLES
    sessions,       \* every MatchClient constructed so far, in construction order
    activeMatches,  \* HypeDuelSDK.activeMatches: matchId -> index into sessions, 0 = no entry
    config,         \* SDKConfig: which optional callbacks are configured
    heap,           \* the application's frame objects: object -> its present content
    hung,           \* the event loop is stuck inside a handler that never returns
    step            \* observation of the last operation: what it was, what it returned

vars == <<sessions, activeMatches, config, heap, hung, step>>

----------------------------------------------------------------------------
(* Bounds of the model *)

MaxSessions == 2        \* Spec: MatchClient instances constructed in one behaviour
MaxCallSessions == 1    \* SpecCalls: MatchClient instances constructed in one behaviour
SessionMsgs == 3        \* SpecSession: messages the application issues on the session
RematchSessions == 3    \* SpecRematch: MatchClient instances constructed for the one match
TrackMsgs == 2          \* SpecLifecycle: state updates the tracking timer issues
MaxSockets == 2         \* SpecLifecycle: WebSockets one session constructs
MaxHandlers == 2        \* SpecHandlers: handlers the application registers on the session
HandlerMsgs == 2        \* SpecHandlers: messages the application issues on the session
RegistrySessions == 2   \* SpecRegistry: MatchClient instances constructed in one behaviour
SessionSockets == 3     \* SpecSockets: WebSockets the session constructs
SocketMsgs == 1         \* SpecSockets: messages the application issues on the session
MaxDisconnecting == 1   \* SpecSockets: error handlers that call disconnect()

TrackingMsgs == 3       \* SpecTracking: state updates the tracking timer issues

----------------------------------------------------------------------------
(* Values *)

Null == "null"
MatchIds == {"m1", "m2"}
Tokens == {"t1", "t2"}
Frames == {"f1"}                 \* SimFrame objects of the application
FrameContents == {"v0", "v1"}    \* what a SimFrame object may hold
gameSecret == "secret"
EventNames == {"connect", "close", "error"}
InboundData == {"not json", "0", "{}"}    \* what the transport may deliver
UserHandlers == {"probe", "throws"}       \* handlers the application registers (see RunHandler)
Undefined == "undefined"

\* A signed assertion: the claim set it carries, the key it was signed with, whether it expired.
Jwts == [matchId : MatchIds \cup {Null}, key : {gameSecret, "forged"}, expired : BOOLEAN]

\* An absent (falsy) jwtData.
NoJwt == [matchId |-> Null, key |-> "", expired |-> FALSE]

\* The assertions the model feeds in: correctly signed ones with every claim set,
\* a forged one, an expired one, and none.
JwtInputs ==
    {j \in Jwts : (j.key = gameSecret /\ ~j.expired) \/ j.matchId = "m1"} \cup {NoJwt}

\* WebhookPayload as the adapters hand it over; "" is an absent (falsy) field.
\* StartMatchWebhookPayload: every field present with every assertion, or one field
\* absent with a correctly signed and with a forged assertion
StartMatchPayloads ==
    {p \in [callType : {"start_match"},
            jwtData : JwtInputs,
            matchId : MatchIds \cup {""},
            authToken : {"", "t1"},
            wsUrl : {"", "not a url", "wss://host"}] :
        LET absent == {f \in {"matchId", "authToken", "wsUrl"} : p[f] = ""}
        IN \/ absent = {}
           \/ /\ Cardinality(absent) = 1
              /\ p.matchId \in {"", "m1"} /\ p.wsUrl \in {"", "wss://host"}
              /\ p.jwtData.matchId = "m1" /\ ~p.jwtData.expired}

\* RequestTeamsWebhookPayload, and a payload of no known call type
OtherPayloads ==
    [callType : {"request_teams", "ping"},
     jwtData : JwtInputs,
     matchId : {"m1"},
     authToken : {""},
     wsUrl : {""}]

Payloads == StartMatchPayloads \cup OtherPayloads

\* jwt.verify(token, secret): throws unless the signature is made with the secret
\* and the token has not expired.
jwtVerify(token, secret) == token.key = secret /\ ~token.expired

\* new WebSocket(url) throws a SyntaxError on an address it cannot parse.
WebSocketCtorThrows(url) == url = "not a url"

ErrMissingJwt == "Missing jwtData in webhook payload"
ErrInvalidJwt == "Invalid JWT token"
ErrNoTeams == "No onRequestTeams callback configured"
ErrMissingAuthToken == "Missing authToken in webhook payload"
ErrMissingMatchId == "Missing matchId in webhook payload"
ErrMissingWsUrl == "Missing wsUrl in webhook payload"
ErrUnknownCallType == "Unknown webhook call type"
ErrProvider == "onRequestTeams failed"
ErrTransport == "transport error"
ErrCallback == "onMatchStart failed"
ErrParse == "Unexpected token in JSON"

\* op: the operation; s: the session it concerned; ret/err: what a handleWebhook call
\* that finished in it returned or threw; started: the session onMatchStart was invoked
\* with; opened: WebSocket connections it opened; onErr: invocations of config.onError;
\* sink: the error config.onError was last given; emitted: the events the session
\* emitted, in order; teamsCalls: invocations of config.onRequestTeams; provided: what
\* onRequestTeams gave; data: what the transport delivered; uncaught: an exception left
\* an event handler uncaught; seen: what the connect handlers and the resolution of
\* connect() found (see Observe); ran: the handlers emit called, in order; input: what
\* a handleWebhook call was given (see InputOf).
NoInput == [callType |-> Null, matchId |-> "", jwt |-> Null, complete |-> FALSE,
            registered |-> FALSE]

NoStep == [op |-> "init", s |-> 0, ret |-> "none", err |-> Null,
           started |-> 0, opened |-> 0, onErr |-> 0, sink |-> Null, emitted |-> <<>>,
           teamsCalls |-> 0, provided |-> Null, data |-> Null, uncaught |-> FALSE,
           seen |-> <<>>, ran |-> <<>>, input |-> NoInput]

\* The program state the handlers work on; step starts empty in every operation.
World == [sessions |-> sessions, activeMatches |-> activeMatches, config |-> config,
          heap |-> heap, hung |-> hung, step |-> NoStep]

----------------------------------------------------------------------------
(* MatchClient *)

\* The readyState of a WebSocket the session constructed and no longer references,
\* and the promise of the connect() call that constructed it; its handlers stay
\* registered. NONE: there is no such WebSocket.
NoOrphan == [rs |-> "NONE", promise |-> "none"]

\* new MatchClient(payload); the transport fields rs/wire and the promise of
\* connect() belong to the session's WebSocket and connect() call.
MatchClient(webhookPayload) ==
    [matchId |-> webhookPayload.matchId,
     authToken |-> webhookPayload.authToken,
     wsUrl |-> webhookPayload.wsUrl,
     websocket |-> Null,
     connected |-> FALSE,
     messageQueue |-> <<>>,
     eventHandlers |-> [e \in EventNames |-> <<>>],
     stateIntervalId |-> Null,
     trackedState |-> Null,
     rs |-> "NONE",          \* readyState of the session's WebSocket
     wire |-> <<>>,          \* what the WebSocket accepted for transmission
     promise |-> "none",     \* the promise connect() returned
     hwpc |-> "created",     \* where the handleWebhook call that made the session stands
     issued |-> <<>>,        \* the messages the application issued, in order
     opened |-> FALSE,       \* the transport reported open
     openAt |-> 0,           \* Len(issued) when the transport reported open
     sockets |-> 0,          \* WebSockets constructed for the session
     closed |-> FALSE,       \* a close event or a disconnect() call has happened
     closedAt |-> 0,         \* Len(wire) when that first happened
     discAt |-> 0,           \* Len(wire) + 1 at the first disconnect() with a tracked state
     trackedObj |-> Null,    \* the object trackState was called with
     trackedAs |-> Null,     \* content of that object when trackState was called
     timers |-> 0,           \* intervals set by setInterval and not cleared
     orphan |-> NoOrphan]    \* an earlier WebSocket of the session, see ConnectAgain

\* handleError handing the error to config.onError twice
handleError_Twice(W, error) ==
    IF W.config.onError THEN [W EXCEPT !.step.onErr = @ + 2, !.step.sink = error] ELSE W

\* HypeDuelSDK.handleError
handleError(W, error) ==
    IF W.config.onError THEN [W EXCEPT !.step.onErr = @ + 1, !.step.sink = error] ELSE W

\* What a piece of code running inside an operation finds in session s: who looks,
\* the connected flag, the length of the queue, how much the transport has accepted
\* and whether that starts with authenticate.
Observe(W, s, by) ==
    LET c == W.sessions[s] IN
    [W EXCEPT !.step.seen = Append(@, [by |-> by,
                                       connected |-> c.connected,
                                       queue |-> Len(c.messageQueue),
                                       sent |-> Len(c.wire),
                                       auth |-> c.wire # <<>> /\ c.wire[1].messageType = "authenticate",
                                       promise |-> c.promise])]

\* clearInterval(id): the timers left; clearing no timer (null) clears nothing.
clearInterval(timers, id) == IF id # Null THEN timers - 1 ELSE timers

\* WebSocket.close by readyState: aborts a handshake in progress (an error and a
\* close event follow), starts the closing handshake of an open socket.
WsCloseCall(rs) ==
    CASE rs = "CONNECTING" -> "ABORTING"
      [] rs = "OPEN" -> "CLOSING"
      [] OTHER -> rs

\* The record a disconnect() call leaves: that the session was closed, how much the
\* transport had accepted by then, and whether a state was tracked. c is the session
\* as the call found it.
Disconnected(W, s, c) ==
    [W EXCEPT !.sessions[s].closed = TRUE,
              !.sessions[s].closedAt = IF c.closed THEN @ ELSE Len(c.wire),
              !.sessions[s].discAt = IF @ = 0 /\ c.trackedState # Null
                                     THEN Len(c.wire) + 1 ELSE @,
              !.sessions[s].trackedObj = IF W.sessions[s].trackedState = Null THEN Null ELSE @,
              !.sessions[s].trackedAs = IF W.sessions[s].trackedState = Null THEN Null ELSE @]

\* disconnect also removing the session's matchId from the registry
disconnect_Evicts(W, s) ==
    LET c == W.sessions[s]
        W1 == IF c.stateIntervalId # Null
              THEN [W EXCEPT !.sessions[s].timers = clearInterval(@, c.stateIntervalId),
                             !.sessions[s].stateIntervalId = Null,
                             !.sessions[s].trackedState = Null]
              ELSE W
        W2 == [W1 EXCEPT !.activeMatches[c.matchId] = 0]
    IN IF c.websocket # Null
       THEN Disconnected([W2 EXCEPT !.sessions[s].rs = WsCloseCall(@),
                                    !.sessions[s].websocket = Null,
                                    !.sessions[s].connected = FALSE], s, c)
       ELSE Disconnected(W2, s, c)

\* disconnect closing the WebSocket and keeping the handle
disconnect_KeepsSocket(W, s) ==
    LET c == W.sessions[s]
        W1 == IF c.stateIntervalId # Null
              THEN [W EXCEPT !.sessions[s].timers = clearInterval(@, c.stateIntervalId),
                             !.sessions[s].stateIntervalId = Null,
                             !.sessions[s].trackedState = Null]
              ELSE W
    IN IF c.websocket # Null
       THEN Disconnected([W1 EXCEPT !.sessions[s].rs = WsCloseCall(@),
                                    !.sessions[s].connected = FALSE], s, c)
       ELSE Disconnected(W1, s, c)

\* disconnect cancelling the timer and keeping the tracked state
disconnect_KeepsState(W, s) ==
    LET c == W.sessions[s]
        W1 == IF c.stateIntervalId # Null
              THEN [W EXCEPT !.sessions[s].timers = clearInterval(@, c.stateIntervalId),
                             !.sessions[s].stateIntervalId = Null]
              ELSE W
    IN IF c.websocket # Null
       THEN Disconnected([W1 EXCEPT !.sessions[s].rs = WsCloseCall(@),
                                    !.sessions[s].websocket = Null,
                                    !.sessions[s].connected = FALSE], s, c)
       ELSE Disconnected(W1, s, c)

\* MatchClient.disconnect
disconnect(W, s) ==
    LET c == W.sessions[s]
        W1 == IF c.stateIntervalId # Null
              THEN [W EXCEPT !.sessions[s].timers = clearInterval(@, c.stateIntervalId),
                             !.sessions[s].stateIntervalId = Null,
                             !.sessions[s].trackedState = Null]
              ELSE W
    IN IF c.websocket # Null
       THEN Disconnected([W1 EXCEPT !.sessions[s].rs = WsCloseCall(@),
                                    !.sessions[s].websocket = Null,
                                    !.sessions[s].connected = FALSE], s, c)
       ELSE Disconnected(W1, s, c)

\* One registered handler, called by emit: the two handleWebhook registers, a handler
\* of the application that looks at the session ("probe"), one that throws ("throws"),
\* one that calls disconnect() on the session ("disconnects").
RunHandler(W, s, h, arg) ==
    LET W0 == [W EXCEPT !.step.ran = Append(@, h)] IN
    CASE h = "sdkClose" -> [W0 EXCEPT !.activeMatches[W.sessions[s].matchId] = 0]
      [] h = "sdkError" -> handleError(W0, arg)
      [] h = "probe" -> Observe(W0, s, "handler")
      [] h = "throws" -> [W0 EXCEPT !.step.uncaught = TRUE]
      [] h = "disconnects" -> disconnect(W0, s)
      [] OTHER -> W0

\* handlers.forEach: an exception thrown by a handler ends the loop and leaves emit.
RECURSIVE forEachHandler(_, _, _, _)
forEachHandler(W, s, hs, arg) ==
    IF hs = <<>> \/ W.step.uncaught THEN W
    ELSE forEachHandler(RunHandler(W, s, Head(hs), arg), s, Tail(hs), arg)

\* MatchClient.emit
emit(W, s, event, arg) ==
    IF W.step.uncaught THEN W
    ELSE forEachHandler([W EXCEPT !.step.emitted = Append(@, event)], s,
                        W.sessions[s].eventHandlers[event], arg)

\* MatchClient.on
on(W, s, event, handler) ==
    [W EXCEPT !.sessions[s].eventHandlers[event] = Append(@, handler)]

\* JSON.stringify(message): the text holds what the frame objects contain when
\* it is made.
JSONstringify(W, message) ==
    [message EXCEPT !.body = [i \in DOMAIN message.body |->
                                 IF message.body[i] \in DOMAIN W.heap
                                 THEN W.heap[message.body[i]]
                                 ELSE message.body[i]]]

\* WebSocket.send by readyState: accepted when OPEN, throws while CONNECTING,
\* silently discarded once CLOSING or CLOSED.
WsSend(rs) ==
    CASE rs = "OPEN" -> "ok"
      [] rs = "CONNECTING" -> "throw"
      [] OTHER -> "drop"

\* _send with the connected flag left out of its test
send_IgnoresConnectedFlag(W, s, message) ==
    LET c == W.sessions[s] IN
    IF c.websocket = Null
    THEN [W EXCEPT !.sessions[s].messageQueue = Append(@, message)]
    ELSE CASE WsSend(c.rs) = "ok" ->
                [W EXCEPT !.sessions[s].wire = Append(@, JSONstringify(W, message))]
           [] WsSend(c.rs) = "throw" -> emit(W, s, "error", ErrTransport)
           [] OTHER -> W

\* _send putting the message back on the queue when WebSocket.send throws
send_Requeues(W, s, message) ==
    LET c == W.sessions[s] IN
    IF ~c.connected \/ c.websocket = Null
    THEN [W EXCEPT !.sessions[s].messageQueue = Append(@, message)]
    ELSE CASE WsSend(c.rs) = "ok" ->
                [W EXCEPT !.sessions[s].wire = Append(@, JSONstringify(W, message))]
           [] WsSend(c.rs) = "throw" ->
                emit([W EXCEPT !.sessions[s].messageQueue = Append(@, message)],
                     s, "error", ErrTransport)
           [] OTHER -> W

\* MatchClient._send
_send(W, s, message) ==
    LET c == W.sessions[s] IN
    IF ~c.connected \/ c.websocket = Null
    THEN [W EXCEPT !.sessions[s].messageQueue = Append(@, message)]
    ELSE CASE WsSend(c.rs) = "ok" ->
                [W EXCEPT !.sessions[s].wire = Append(@, JSONstringify(W, message))]
           [] WsSend(c.rs) = "throw" -> emit(W, s, "error", ErrTransport)
           [] OTHER -> W

\* flushMessageQueue taking the newest message first (pop instead of shift)
RECURSIVE flushMessageQueue_Pop(_, _)
flushMessageQueue_Pop(W, s) ==
    LET q == W.sessions[s].messageQueue IN
    IF Len(q) = 0 THEN W
    ELSE LET W2 == _send([W EXCEPT !.sessions[s].messageQueue = SubSeq(q, 1, Len(q) - 1)],
                         s, q[Len(q)])
             c2 == W2.sessions[s]
         IN IF (~c2.connected \/ c2.websocket = Null) /\ Len(c2.messageQueue) > 0
            THEN [W2 EXCEPT !.hung = TRUE]
            ELSE flushMessageQueue_Pop(W2, s)

\* MatchClient.flushMessageQueue. The loop never ends when a shifted message is
\* pushed back (the session cannot send) and the queue is not empty.
RECURSIVE flushMessageQueue(_, _)
flushMessageQueue(W, s) ==
    LET q == W.sessions[s].messageQueue IN
    IF Len(q) = 0 THEN W
    ELSE LET W2 == _send([W EXCEPT !.sessions[s].messageQueue = Tail(q)], s, Head(q))
             c2 == W2.sessions[s]
         IN IF (~c2.connected \/ c2.websocket = Null) /\ Len(c2.messageQueue) > 0
            THEN [W2 EXCEPT !.hung = TRUE]
            ELSE flushMessageQueue(W2, s)

\* MatchClient.authenticate
authenticate(W, s) ==
    _send(W, s, [messageType |-> "authenticate", body |-> <<W.sessions[s].authToken>>, n |-> 0])

\* The message an application call issues; n is its place among the session's issued messages.
Issue(W, s, messageType, body) ==
    LET m == [messageType |-> messageType, body |-> body, n |-> Len(W.sessions[s].issued) + 1]
    IN _send([W EXCEPT !.sessions[s].issued = Append(@, m)], s, m)

beginMatch(W, s) == Issue(W, s, "init_frames", <<>>)

sendStateUpdate(W, s, frames) == Issue(W, s, "scene_frames", frames)

endMatch(W, s) == Issue(W, s, "end_frames", <<>>)

\* trackState keeping a copy of the state as it is when called
trackState_Snapshot(W, s, state) ==
    [W EXCEPT !.sessions[s].trackedState = W.heap[state],
              !.sessions[s].stateIntervalId = "timer",
              !.sessions[s].timers = clearInterval(@, W.sessions[s].stateIntervalId) + 1,
              !.sessions[s].trackedObj = state,
              !.sessions[s].trackedAs = W.heap[state]]

\* trackState setting its interval without clearing the one it had set before
trackState_NoClear(W, s, state) ==
    [W EXCEPT !.sessions[s].trackedState = state,
              !.sessions[s].stateIntervalId = "timer",
              !.sessions[s].timers = @ + 1,
              !.sessions[s].trackedObj = state,
              !.sessions[s].trackedAs = W.heap[state]]

\* MatchClient.trackState
trackState(W, s, state) ==
    [W EXCEPT !.sessions[s].trackedState = state,
              !.sessions[s].stateIntervalId = "timer",
              !.sessions[s].timers = clearInterval(@, W.sessions[s].stateIntervalId) + 1,
              !.sessions[s].trackedObj = state,
              !.sessions[s].trackedAs = W.heap[state]]

\* The setInterval callback of trackState
intervalCallback(W, s) ==
    IF W.sessions[s].trackedState # Null
    THEN sendStateUpdate(W, s, <<W.sessions[s].trackedState>>)
    ELSE W

\* JSON.parse(data): throws, or yields a primitive, or an object
JSONparse(data) ==
    CASE data = "not json" -> "throw"
      [] data = "0" -> "primitive"
      [] OTHER -> "object"

\* MatchClient.handleMessage
handleMessage(W, s, data) ==
    IF JSONparse(data) = "throw" THEN emit(W, s, "error", ErrParse) ELSE W

\* MatchClient.isConnected
isConnected(c) == c.connected

----------------------------------------------------------------------------
(* The session's WebSocket event handlers, registered in MatchClient.connect *)

\* handleWebhook from the registration of the close handler to its return
RegisterAndReturn(W, s) ==
    LET W1 == on(on(W, s, "close", "sdkClose"), s, "error", "sdkError")
    IN [W1 EXCEPT !.sessions[s].hwpc = "returned", !.step.ret = "client", !.step.s = s]

\* handleWebhook after `await matchClient.connect()` resolved
AfterConnect(W, s) ==
    IF W.config.onMatchStart
    THEN [W EXCEPT !.sessions[s].hwpc = "callback", !.step.started = s]
    ELSE RegisterAndReturn(W, s)

\* The outer catch rethrowing without a call of handleError
Throw_NoSink(W, error) == [W EXCEPT !.step.err = error]

\* handleWebhook's outer catch: forward to the error sink and rethrow
Throw(W, error) == [handleError(W, error) EXCEPT !.step.err = error]

\* resolve() of the connect() promise, and the awaiting handleWebhook call going on
resolve(W, s) ==
    IF W.sessions[s].promise = "pending"
    THEN LET W1 == [Observe(W, s, "resolve") EXCEPT !.sessions[s].promise = "resolved"]
         IN IF W1.sessions[s].hwpc = "awaitConnect" THEN AfterConnect(W1, s) ELSE W1
    ELSE W

\* reject whose error the awaiting call swallows, going on as if connected
reject_Swallowed(W, s) ==
    IF W.sessions[s].promise = "pending"
    THEN LET W1 == [W EXCEPT !.sessions[s].promise = "rejected"]
         IN IF W1.sessions[s].hwpc = "awaitConnect" THEN AfterConnect(W1, s) ELSE W1
    ELSE W

\* reject also removing the session's matchId from the registry
reject_Evicts(W, s) ==
    IF W.sessions[s].promise = "pending"
    THEN LET W1 == [W EXCEPT !.sessions[s].promise = "rejected",
                             !.activeMatches[W.sessions[s].matchId] = 0]
         IN IF W1.sessions[s].hwpc = "awaitConnect"
            THEN Throw([W1 EXCEPT !.sessions[s].hwpc = "threwConnect"], ErrTransport)
            ELSE W1
    ELSE W

\* reject(error) of the connect() promise, and the awaiting handleWebhook call failing
reject(W, s) ==
    IF W.sessions[s].promise = "pending"
    THEN LET W1 == [W EXCEPT !.sessions[s].promise = "rejected"]
         IN IF W1.sessions[s].hwpc = "awaitConnect"
            THEN Throw([W1 EXCEPT !.sessions[s].hwpc = "threwConnect"], ErrTransport)
            ELSE W1
    ELSE W

\* The open handler flushing the queue before it authenticates
onOpen_FlushFirst(W, s) ==
    LET W1 == [W EXCEPT !.sessions[s].connected = TRUE,
                        !.sessions[s].opened = TRUE,
                        !.sessions[s].openAt = Len(W.sessions[s].issued)]
        W2 == flushMessageQueue(W1, s)
        W3 == authenticate(W2, s)
        W4 == emit(W3, s, "connect", Null)
    IN IF W3.hung THEN W3 ELSE IF W4.step.uncaught THEN W4 ELSE resolve(W4, s)

\* The open handler emitting connect before it authenticates and flushes
onOpen_EmitFirst(W, s) ==
    LET W1 == emit([W EXCEPT !.sessions[s].connected = TRUE,
                             !.sessions[s].opened = TRUE,
                             !.sessions[s].openAt = Len(W.sessions[s].issued)],
                   s, "connect", Null)
        W2 == authenticate(W1, s)
        W3 == flushMessageQueue(W2, s)
    IN IF W3.hung \/ W3.step.uncaught THEN W3 ELSE resolve(W3, s)

\* websocket.on('open', ...). resolve() is not reached when a connect handler threw.
onOpen(W, s) ==
    LET W1 == [W EXCEPT !.sessions[s].connected = TRUE,
                        !.sessions[s].opened = TRUE,
                        !.sessions[s].openAt = Len(W.sessions[s].issued)]
        W2 == authenticate(W1, s)
        W3 == flushMessageQueue(W2, s)
        W4 == emit(W3, s, "connect", Null)
    IN IF W3.hung THEN W3 ELSE IF W4.step.uncaught THEN W4 ELSE resolve(W4, s)

\* The error handler marking the session disconnected
onError_MarksDisconnected(W, s) ==
    LET W1 == emit([W EXCEPT !.sessions[s].connected = FALSE], s, "error", ErrTransport)
    IN IF W1.step.uncaught THEN W1 ELSE reject(W1, s)

\* websocket.on('error', ...). reject() is not reached when an error handler threw.
onError(W, s) ==
    LET W1 == emit(W, s, "error", ErrTransport)
    IN IF W1.step.uncaught THEN W1 ELSE reject(W1, s)

\* websocket.on('close', ...)
onClose(W, s) ==
    emit([W EXCEPT !.sessions[s].connected = FALSE,
                   !.sessions[s].closed = TRUE,
                   !.sessions[s].closedAt = IF W.sessions[s].closed THEN @
                                            ELSE Len(W.sessions[s].wire)],
         s, "close", Null)

\* MatchClient.connect, called on the session handleWebhook just made
connect(W, s) ==
    IF WebSocketCtorThrows(W.sessions[s].wsUrl)
    THEN reject([W EXCEPT !.sessions[s].promise = "pending"], s)
    ELSE [W EXCEPT !.sessions[s].websocket = "ws",
                   !.sessions[s].rs = "CONNECTING",
                   !.sessions[s].promise = "pending",
                   !.sessions[s].sockets = @ + 1,
                   !.step.opened = @ + 1]

----------------------------------------------------------------------------
(* HypeDuelSDK *)

\* HypeDuelSDK.validatePayload: the error it throws, Null when it returns
validatePayload(payload) ==
    IF payload.callType = "start_match"
    THEN CASE payload.authToken = "" -> ErrMissingAuthToken
           [] payload.matchId = "" -> ErrMissingMatchId
           [] payload.wsUrl = "" -> ErrMissingWsUrl
           [] OTHER -> Null
    ELSE Null

\* start_match without the lookup of an existing entry
startMatch_NoLookup(W, payload) ==
    IF validatePayload(payload) # Null THEN Throw(W, validatePayload(payload))
    ELSE LET s == Len(W.sessions) + 1
             W1 == [W EXCEPT !.sessions = Append(@, [MatchClient(payload) EXCEPT
                                                        !.hwpc = "awaitConnect"]),
                             !.activeMatches[payload.matchId] = s,
                             !.step.s = s]
         IN connect(W1, s)

\* start_match returning the existing entry only when that session is connected
startMatch_LookupConnected(W, payload) ==
    IF validatePayload(payload) # Null THEN Throw(W, validatePayload(payload))
    ELSE IF W.activeMatches[payload.matchId] # 0
            /\ W.sessions[W.activeMatches[payload.matchId]].connected
    THEN [W EXCEPT !.step.ret = "client", !.step.s = W.activeMatches[payload.matchId]]
    ELSE LET s == Len(W.sessions) + 1
             W1 == [W EXCEPT !.sessions = Append(@, [MatchClient(payload) EXCEPT
                                                        !.hwpc = "awaitConnect"]),
                             !.activeMatches[payload.matchId] = s,
                             !.step.s = s]
         IN connect(W1, s)

\* handleWebhook, case 'start_match'
startMatch(W, payload) ==
    IF validatePayload(payload) # Null THEN Throw(W, validatePayload(payload))
    ELSE IF W.activeMatches[payload.matchId] # 0
    THEN [W EXCEPT !.step.ret = "client", !.step.s = W.activeMatches[payload.matchId]]
    ELSE LET s == Len(W.sessions) + 1
             W1 == [W EXCEPT !.sessions = Append(@, [MatchClient(payload) EXCEPT
                                                        !.hwpc = "awaitConnect"]),
                             !.activeMatches[payload.matchId] = s,
                             !.step.s = s]
         IN connect(W1, s)

\* What the provider gives: its teams, or its failure
ProviderOutcome(providerOk) == IF providerOk THEN "teams" ELSE ErrProvider

\* request_teams answering with teams when no provider is configured
requestTeams_NoProviderCheck(W, payload, providerOk) ==
    IF ~W.config.onRequestTeams THEN [W EXCEPT !.step.ret = "teams"]
    ELSE LET W1 == [W EXCEPT !.step.teamsCalls = @ + 1,
                             !.step.provided = ProviderOutcome(providerOk)]
         IN IF providerOk THEN [W1 EXCEPT !.step.ret = "teams"] ELSE Throw(W1, ErrProvider)

\* request_teams answering with teams when the provider failed
requestTeams_Swallow(W, payload, providerOk) ==
    IF ~W.config.onRequestTeams THEN Throw(W, ErrNoTeams)
    ELSE [W EXCEPT !.step.teamsCalls = @ + 1,
                   !.step.provided = ProviderOutcome(providerOk),
                   !.step.ret = "teams"]

\* handleWebhook, case 'request_teams'; providerOk: whether the user's provider succeeds
requestTeams(W, payload, providerOk) ==
    IF ~W.config.onRequestTeams THEN Throw(W, ErrNoTeams)
    ELSE LET W1 == [W EXCEPT !.step.teamsCalls = @ + 1,
                             !.step.provided = ProviderOutcome(providerOk)]
         IN IF providerOk THEN [W1 EXCEPT !.step.ret = "teams"] ELSE Throw(W1, ErrProvider)

\* handleWebhook going on after a failed verification
handleWebhook_VerifyIgnored(W, payload, providerOk) ==
    IF payload.jwtData = NoJwt THEN Throw(W, ErrMissingJwt)
    ELSE CASE payload.callType = "request_teams" -> requestTeams(W, payload, providerOk)
           [] payload.callType = "start_match" -> startMatch(W, payload)
           [] OTHER -> Throw(W, ErrUnknownCallType)

\* handleWebhook rejecting an unknown call type before it verifies the assertion
handleWebhook_KindFirst(W, payload, providerOk) ==
    IF payload.jwtData = NoJwt THEN Throw(W, ErrMissingJwt)
    ELSE IF payload.callType \notin {"request_teams", "start_match"}
    THEN Throw(W, ErrUnknownCallType)
    ELSE IF ~jwtVerify(payload.jwtData, gameSecret) THEN Throw(W, ErrInvalidJwt)
    ELSE CASE payload.callType = "request_teams" -> requestTeams(W, payload, providerOk)
           [] OTHER -> startMatch(W, payload)

\* HypeDuelSDK.handleWebhook up to its first suspension
handleWebhook(W, payload, providerOk) ==
    IF payload.jwtData = NoJwt THEN Throw(W, ErrMissingJwt)
    ELSE IF ~jwtVerify(payload.jwtData, gameSecret) THEN Throw(W, ErrInvalidJwt)
    ELSE CASE payload.callType = "request_teams" -> requestTeams(W, payload, providerOk)
           [] payload.callType = "start_match" -> startMatch(W, payload)
           [] OTHER -> Throw(W, ErrUnknownCallType)

\* HypeDuelSDK.getMatch
getMatch(matchId) == activeMatches[matchId]

\* HypeDuelSDK.disconnectMatch
disconnectMatch(W, matchId) ==
    LET match == W.activeMatches[matchId] IN
    IF match # 0
    THEN [disconnect(W, match) EXCEPT !.activeMatches[matchId] = 0]
    ELSE W

RECURSIVE forEachMatch(_, _)
forEachMatch(W, ids) ==
    IF ids = {} THEN W
    ELSE LET id == CHOOSE i \in ids : TRUE
         IN forEachMatch(IF W.activeMatches[id] # 0 THEN disconnect(W, W.activeMatches[id]) ELSE W,
                         ids \ {id})

\* disconnectAll emptying the registry without disconnecting the sessions
disconnectAll_ClearOnly(W) ==
    [W EXCEPT !.activeMatches = [m \in MatchIds |-> 0]]

\* HypeDuelSDK.disconnectAll
disconnectAll(W) ==
    [forEachMatch(W, MatchIds) EXCEPT !.activeMatches = [m \in MatchIds |-> 0]]

----------------------------------------------------------------------------
(* The framework adapters *)

\* matchClient.matchId of what handleWebhook resolved with: the session's matchId,
\* undefined on the array onRequestTeams gave.
matchIdOf(W, ret, s) == IF ret = "client" THEN W.sessions[s].matchId ELSE Undefined

\* The handler of createExpressHandler from the settling of sdk.handleWebhook on:
\* the status and the JSON body it answers with. ret, err: what handleWebhook
\* returned or threw; matchId: the matchId property of what it returned. A property
\* whose value is undefined is left out of the JSON text.
createExpressHandler(ret, err, matchId) ==
    IF err # Null
    THEN [status |-> 400, success |-> FALSE, error |-> err, matchId |-> Undefined,
          teams |-> Undefined]
    ELSE [status |-> 200, success |-> TRUE, error |-> Undefined, matchId |-> matchId,
          teams |-> Undefined]

\* The handler of createHttpHandler: 405 to another method than POST, 400 to a body
\* JSON.parse rejects, and from there on as the Express handler.
createHttpHandler(method, body, ret, err, matchId) ==
    CASE method # "POST" ->
           [status |-> 405, success |-> Undefined, error |-> "Method not allowed",
            matchId |-> Undefined, teams |-> Undefined]
      [] body = "not json" ->
           [status |-> 400, success |-> FALSE, error |-> ErrParse, matchId |-> Undefined,
            teams |-> Undefined]
      [] OTHER -> createExpressHandler(ret, err, matchId)

----------------------------------------------------------------------------
(* The state machine *)

Sessions == 1..Len(sessions)

RECURSIVE SumIssued(_)
SumIssued(n) == IF n = 0 THEN 0 ELSE Len(sessions[n].issued) + SumIssued(n - 1)

\* The operation named op ends in world W.
Becomes(W, op, s) ==
    /\ sessions' = W.sessions
    /\ activeMatches' = W.activeMatches
    /\ heap' = W.heap
    /\ hung' = W.hung
    /\ step' = [W.step EXCEPT !.op = op, !.s = IF W.step.s = 0 THEN s ELSE W.step.s]
    /\ UNCHANGED config

\* The call constructs a MatchClient.
CreatesSession(payload) ==
    /\ payload.jwtData # NoJwt
    /\ jwtVerify(payload.jwtData, gameSecret)
    /\ payload.callType = "start_match"
    /\ validatePayload(payload) = Null
    /\ activeMatches[payload.matchId] = 0

\* What a handleWebhook call is given: its call type and matchId; whether its assertion is absent,
\* fails verification ("invalid"), verifies but names another match than the payload
\* ("mismatch"), or verifies; whether authToken, matchId and wsUrl are all present;
\* whether the registry holds an entry for its matchId when the call is made.
InputOf(payload) ==
    [callType |-> payload.callType,
     matchId |-> payload.matchId,
     jwt |-> CASE payload.jwtData = NoJwt -> "absent"
               [] ~(payload.jwtData.key = gameSecret /\ ~payload.jwtData.expired) -> "invalid"
               [] payload.jwtData.matchId \notin {Null, payload.matchId} -> "mismatch"
               [] OTHER -> "valid",
     complete |-> payload.authToken # "" /\ payload.matchId # "" /\ payload.wsUrl # "",
     registered |-> payload.matchId # "" /\ activeMatches[payload.matchId] # 0]

HandleWebhook(payload, providerOk) ==
    /\ ~hung
    /\ Becomes(handleWebhook([World EXCEPT !.step.input = InputOf(payload)], payload, providerOk),
               "handleWebhook", 0)

WsOpen(s) ==
    /\ ~hung
    /\ sessions[s].rs = "CONNECTING"
    /\ Becomes(onOpen([World EXCEPT !.sessions[s].rs = "OPEN"], s), "wsOpen", s)

WsError(s) ==
    /\ ~hung
    /\ sessions[s].rs \in {"CONNECTING", "ABORTING", "OPEN"}
    /\ Becomes(onError([World EXCEPT !.sessions[s].rs = "CLOSING"], s), "wsError", s)

WsClose(s) ==
    /\ ~hung
    /\ sessions[s].rs \in {"OPEN", "CLOSING"}
    /\ Becomes(onClose([World EXCEPT !.sessions[s].rs = "CLOSED"], s), "wsClose", s)

CallbackResolve(s) ==
    /\ ~hung
    /\ sessions[s].hwpc = "callback"
    /\ Becomes(RegisterAndReturn(World, s), "callbackResolve", s)

CallbackReject(s) ==
    /\ ~hung
    /\ sessions[s].hwpc = "callback"
    /\ Becomes(Throw([World EXCEPT !.sessions[s].hwpc = "threwCallback"], ErrCallback),
               "callbackReject", s)

BeginMatch(s) ==
    /\ ~hung
    /\ Becomes(beginMatch(World, s), "beginMatch", s)

SendStateUpdate(s, frames) ==
    /\ ~hung
    /\ Becomes(sendStateUpdate(World, s, frames), "sendStateUpdate", s)

EndMatch(s) ==
    /\ ~hung
    /\ Becomes(endMatch(World, s), "endMatch", s)

TrackState(s, state) ==
    /\ ~hung
    /\ Becomes(trackState(World, s, state), "trackState", s)

TimerTick(s) ==
    /\ ~hung
    /\ sessions[s].stateIntervalId # Null
    /\ Becomes(intervalCallback(World, s), "timerTick", s)

Disconnect(s) ==
    /\ ~hung
    /\ Becomes(disconnect(World, s), "disconnect", s)

DisconnectMatch(matchId) ==
    /\ ~hung
    /\ Becomes(disconnectMatch(World, matchId), "disconnectMatch", activeMatches[matchId])

DisconnectAll ==
    /\ ~hung
    /\ Becomes(disconnectAll(World), "disconnectAll", 0)

\* The application calls disconnect() on the session it has just called it on.
DisconnectAgain(s) ==
    /\ ~hung
    /\ step.op \in {"disconnect", "disconnectAgain"} /\ step.s = s
    /\ Becomes(disconnect(World, s), "disconnectAgain", s)

\* Handlers of the application registered on session s
UserHandlerCount(s) ==
    LET n(e) == Len(SelectSeq(sessions[s].eventHandlers[e], LAMBDA h : h \in UserHandlers))
    IN n("connect") + n("close") + n("error")

\* The application registers a handler: MatchClient.on
On(s, event, handler) ==
    /\ ~hung
    /\ Becomes(on(World, s, event, handler), "on", s)

\* The application calls connect() on a session whose transport has closed.
Connect(s) ==
    /\ ~hung
    /\ sessions[s].rs = "CLOSED"
    /\ Becomes(connect(World, s), "connect", s)

\* The application calls connect() on a session whose WebSocket is connecting or
\* open: connect() has no guard, the new WebSocket replaces the handle, and the
\* earlier one stays alive with its four handlers registered.
ConnectAgain(s) ==
    /\ ~hung
    /\ sessions[s].rs \in {"CONNECTING", "OPEN"}
    /\ sessions[s].hwpc # "awaitConnect"
    /\ sessions[s].orphan.rs \in {"NONE", "CLOSED"}
    /\ Becomes(connect([World EXCEPT !.sessions[s].orphan =
                                        [rs |-> sessions[s].rs,
                                         promise |-> sessions[s].promise]], s),
               "connect", s)

\* The handlers of a WebSocket settle the promise of the connect() call that
\* constructed it: the promise of the session's WebSocket and that of the earlier
\* one change places around a handler of the earlier one.
OrphanPromise(W, s) ==
    [W EXCEPT !.sessions[s].promise = W.sessions[s].orphan.promise,
              !.sessions[s].orphan.promise = W.sessions[s].promise]

\* The earlier WebSocket opens: its websocket.on('open', ...)
OrphanOpen(s) ==
    /\ ~hung
    /\ sessions[s].orphan.rs = "CONNECTING"
    /\ Becomes(OrphanPromise(onOpen(OrphanPromise([World EXCEPT !.sessions[s].orphan.rs = "OPEN"], s),
                                    s), s),
               "orphanOpen", s)

\* The earlier WebSocket fails: its websocket.on('error', ...)
OrphanError(s) ==
    /\ ~hung
    /\ sessions[s].orphan.rs \in {"CONNECTING", "OPEN"}
    /\ Becomes(OrphanPromise(onError(OrphanPromise([World EXCEPT !.sessions[s].orphan.rs = "CLOSING"], s),
                                     s), s),
               "orphanError", s)

\* The earlier WebSocket closes: its websocket.on('close', ...)
OrphanClose(s) ==
    /\ ~hung
    /\ sessions[s].orphan.rs \in {"OPEN", "CLOSING"}
    /\ Becomes(OrphanPromise(onClose(OrphanPromise([World EXCEPT !.sessions[s].orphan.rs = "CLOSED"], s),
                                     s), s),
               "orphanClose", s)

\* Error handlers of the application on session s that call disconnect()
Disconnecting(s) ==
    Len(SelectSeq(sessions[s].eventHandlers["error"], LAMBDA h : h = "disconnects"))

\* The transport delivers data: websocket.on('message', ...)
WsMessage(s, data) ==
    /\ ~hung
    /\ sessions[s].rs \in {"OPEN", "CLOSING"}
    /\ Becomes(handleMessage([World EXCEPT !.step.data = data], s, data), "wsMessage", s)

\* The application writes new content into one of its frame objects.
Mutate(f, content) ==
    /\ ~hung
    /\ heap[f] # content
    /\ heap' = [heap EXCEPT ![f] = content]
    /\ step' = [NoStep EXCEPT !.op = "mutate"]
    /\ UNCHANGED <<sessions, activeMatches, config, hung>>

\* The transport events and the settling of the user's callback
Environment ==
    \/ \E s \in Sessions : WsOpen(s)
    \/ \E s \in Sessions : WsError(s)
    \/ \E s \in Sessions : WsClose(s)
    \/ \E s \in Sessions : CallbackResolve(s)
    \/ \E s \in Sessions : CallbackReject(s)

\* The application's calls on a session
SessionCalls ==
    \/ \E s \in Sessions : SumIssued(Len(sessions)) < SessionMsgs /\ BeginMatch(s)
    \/ \E s \in Sessions, f \in Frames :
         SumIssued(Len(sessions)) < SessionMsgs /\ SendStateUpdate(s, <<f>>)
    \/ \E s \in Sessions : SumIssued(Len(sessions)) < SessionMsgs /\ EndMatch(s)
    \/ \E s \in Sessions : SumIssued(Len(sessions)) < SessionMsgs /\ TimerTick(s)
    \/ \E s \in Sessions, f \in Frames : TrackState(s, f)
    \/ \E s \in Sessions : Disconnect(s)
    \/ \E s \in Sessions : DisconnectAgain(s)

----------------------------------------------------------------------------
(* Spec: start_match calls that pass verification and validation, their sessions *)
(* and the registry                                                             *)

\* start_match payloads with a verified assertion and every field present; the
\* address may be one the WebSocket constructor rejects.
AcceptedStartPayloads ==
    {p \in StartMatchPayloads :
        /\ p.jwtData = [matchId |-> p.matchId, key |-> gameSecret, expired |-> FALSE]
        /\ p.matchId # "" /\ p.authToken # "" /\ p.wsUrl # ""}

Init ==
    /\ sessions = <<>>
    /\ activeMatches = [m \in MatchIds |-> 0]
    /\ config \in {c \in [onMatchStart : BOOLEAN, onError : BOOLEAN, onRequestTeams : BOOLEAN] :
                     ~c.onRequestTeams}
    /\ heap = [f \in Frames |-> "v0"]
    /\ hung = FALSE
    /\ step = NoStep

Next ==
    \/ \E payload \in AcceptedStartPayloads :
         /\ CreatesSession(payload) => Len(sessions) < MaxSessions
         /\ HandleWebhook(payload, TRUE)
    \/ Environment
    \/ \E s \in Sessions : Disconnect(s)
    \/ \E m \in MatchIds : DisconnectMatch(m)
    \/ DisconnectAll

Spec == Init /\ [][Next]_vars

----------------------------------------------------------------------------
(* SpecCalls: handleWebhook with every payload under every configuration *)

InitCalls ==
    /\ sessions = <<>>
    /\ activeMatches = [m \in MatchIds |-> 0]
    /\ config \in [onMatchStart : BOOLEAN, onError : BOOLEAN, onRequestTeams : BOOLEAN]
    /\ heap = [f \in Frames |-> "v0"]
    /\ hung = FALSE
    /\ step = NoStep

NextCalls ==
    \/ \E payload \in StartMatchPayloads :
         /\ CreatesSession(payload) => Len(sessions) < MaxCallSessions
         /\ HandleWebhook(payload, TRUE)
    \/ \E payload \in OtherPayloads, providerOk \in BOOLEAN : HandleWebhook(payload, providerOk)
    \/ Environment
    \/ \E m \in MatchIds : DisconnectMatch(m)

SpecCalls == InitCalls /\ [][NextCalls]_vars

----------------------------------------------------------------------------
(* SpecSession: one session, made by one valid start_match call, and its messages *)

ValidStartPayloads ==
    [callType : {"start_match"},
     jwtData : {[matchId |-> "m1", key |-> gameSecret, expired |-> FALSE]},
     matchId : {"m1"},
     authToken : Tokens,
     wsUrl : {"wss://host"}]

InitSession ==
    /\ sessions = <<>>
    /\ activeMatches = [m \in MatchIds |-> 0]
    /\ config \in {c \in [onMatchStart : BOOLEAN, onError : BOOLEAN, onRequestTeams : BOOLEAN] :
                     c.onError /\ ~c.onRequestTeams}
    /\ heap = [f \in Frames |-> "v0"]
    /\ hung = FALSE
    /\ step = NoStep

NextSession ==
    \/ \E payload \in ValidStartPayloads : Len(sessions) = 0 /\ HandleWebhook(payload, TRUE)
    \/ Environment
    \/ SessionCalls

SpecSession == InitSession /\ [][NextSession]_vars

----------------------------------------------------------------------------
(* SpecRematch: one match identifier started, disconnected and started again *)

InitRematch ==
    /\ sessions = <<>>
    /\ activeMatches = [m \in MatchIds |-> 0]
    /\ config = [onMatchStart |-> FALSE, onError |-> TRUE, onRequestTeams |-> FALSE]
    /\ heap = [f \in Frames |-> "v0"]
    /\ hung = FALSE
    /\ step = NoStep

NextRematch ==
    \/ \E payload \in ValidStartPayloads :
         /\ CreatesSession(payload) => Len(sessions) < RematchSessions
         /\ HandleWebhook(payload, TRUE)
    \/ \E s \in Sessions : WsOpen(s)
    \/ \E s \in Sessions : WsError(s)
    \/ \E s \in Sessions : WsClose(s)
    \/ \E s \in Sessions : Disconnect(s)
    \/ \E m \in {"m1"} : DisconnectMatch(m)
    \/ DisconnectAll

SpecRematch == InitRematch /\ [][NextRematch]_vars

----------------------------------------------------------------------------
(* SpecLifecycle: one session from its start_match call on, with state tracking, *)
(* inbound data, disconnect() and connect() called again after the close         *)

InitLifecycle ==
    /\ sessions = <<>>
    /\ activeMatches = [m \in MatchIds |-> 0]
    /\ config = [onMatchStart |-> FALSE, onError |-> TRUE, onRequestTeams |-> FALSE]
    /\ heap = [f \in Frames |-> "v0"]
    /\ hung = FALSE
    /\ step = NoStep

NextLifecycle ==
    \/ \E payload \in ValidStartPayloads : Len(sessions) = 0 /\ HandleWebhook(payload, TRUE)
    \/ \E s \in Sessions : WsOpen(s)
    \/ \E s \in Sessions : WsError(s)
    \/ \E s \in Sessions : WsClose(s)
    \/ \E s \in Sessions, data \in InboundData : WsMessage(s, data)
    \/ \E s \in Sessions, f \in Frames : TrackState(s, f)
    \/ \E f \in Frames, content \in FrameContents : Mutate(f, content)
    \/ \E s \in Sessions : SumIssued(Len(sessions)) < TrackMsgs /\ TimerTick(s)
    \/ \E s \in Sessions : Disconnect(s)
    \/ \E s \in Sessions : sessions[s].sockets < MaxSockets /\ Connect(s)

SpecLifecycle == InitLifecycle /\ [][NextLifecycle]_vars

----------------------------------------------------------------------------
(* SpecHandlers: one session with handlers of the application registered on it *)

InitHandlers ==
    /\ sessions = <<>>
    /\ activeMatches = [m \in MatchIds |-> 0]
    /\ config = [onMatchStart |-> FALSE, onError |-> TRUE, onRequestTeams |-> FALSE]
    /\ heap = [f \in Frames |-> "v0"]
    /\ hung = FALSE
    /\ step = NoStep

NextHandlers ==
    \/ \E payload \in ValidStartPayloads : Len(sessions) = 0 /\ HandleWebhook(payload, TRUE)
    \/ \E s \in Sessions, event \in EventNames, handler \in UserHandlers :
         UserHandlerCount(s) < MaxHandlers /\ On(s, event, handler)
    \/ \E s \in Sessions : SumIssued(Len(sessions)) < HandlerMsgs /\ BeginMatch(s)
    \/ \E s \in Sessions : WsOpen(s)
    \/ \E s \in Sessions : WsError(s)
    \/ \E s \in Sessions : WsClose(s)
    \/ \E s \in Sessions : Disconnect(s)

SpecHandlers == InitHandlers /\ [][NextHandlers]_vars

----------------------------------------------------------------------------
(* SpecRegistry: start_match calls for two matches, delivered again while the first *)
(* call is in flight, with disconnectMatch and disconnectAll                        *)

RegistryPayloads ==
    {p \in AcceptedStartPayloads : p.wsUrl = "wss://host"}

InitRegistry ==
    /\ sessions = <<>>
    /\ activeMatches = [m \in MatchIds |-> 0]
    /\ config \in {c \in [onMatchStart : BOOLEAN, onError : BOOLEAN, onRequestTeams : BOOLEAN] :
                     c.onError /\ ~c.onRequestTeams}
    /\ heap = [f \in Frames |-> "v0"]
    /\ hung = FALSE
    /\ step = NoStep

NextRegistry ==
    \/ \E payload \in RegistryPayloads :
         /\ CreatesSession(payload) => Len(sessions) < RegistrySessions
         /\ HandleWebhook(payload, TRUE)
    \/ Environment
    \/ \E m \in MatchIds : DisconnectMatch(m)
    \/ DisconnectAll

SpecRegistry == InitRegistry /\ [][NextRegistry]_vars

----------------------------------------------------------------------------
(* SpecTracking: one session tracking now one, now another of two state objects *)

TrackedFrames == Frames \cup {"f2"}

InitTracking ==
    /\ sessions = <<>>
    /\ activeMatches = [m \in MatchIds |-> 0]
    /\ config = [onMatchStart |-> FALSE, onError |-> TRUE, onRequestTeams |-> FALSE]
    /\ heap = [f \in TrackedFrames |-> "v0"]
    /\ hung = FALSE
    /\ step = NoStep

NextTracking ==
    \/ \E payload \in ValidStartPayloads : Len(sessions) = 0 /\ HandleWebhook(payload, TRUE)
    \/ \E s \in Sessions : WsOpen(s)
    \/ \E s \in Sessions : WsError(s)
    \/ \E s \in Sessions : WsClose(s)
    \/ \E s \in Sessions, f \in TrackedFrames : TrackState(s, f)
    \/ \E s \in Sessions : SumIssued(Len(sessions)) < TrackingMsgs /\ TimerTick(s)
    \/ \E s \in Sessions : Disconnect(s)

SpecTracking == InitTracking /\ [][NextTracking]_vars

----------------------------------------------------------------------------

(* SpecSockets: one session on which the application calls connect() again,      *)
(* while its WebSocket is connecting or open or after it closed, issues messages *)
(* and registers an error handler that calls disconnect()                        *)

InitSockets ==
    /\ sessions = <<>>
    /\ activeMatches = [m \in MatchIds |-> 0]
    /\ config = [onMatchStart |-> FALSE, onError |-> TRUE, onRequestTeams |-> FALSE]
    /\ heap = [f \in Frames |-> "v0"]
    /\ hung = FALSE
    /\ step = NoStep

NextSockets ==
    \/ \E payload \in ValidStartPayloads : Len(sessions) = 0 /\ HandleWebhook(payload, TRUE)
    \/ \E s \in Sessions : WsOpen(s)
    \/ \E s \in Sessions : WsError(s)
    \/ \E s \in Sessions : WsClose(s)
    \/ \E s \in Sessions : OrphanOpen(s)
    \/ \E s \in Sessions : OrphanError(s)
    \/ \E s \in Sessions : OrphanClose(s)
    \/ \E s \in Sessions : sessions[s].sockets < SessionSockets /\ Connect(s)
    \/ \E s \in Sessions : sessions[s].sockets < SessionSockets /\ ConnectAgain(s)
    \/ \E s \in Sessions : SumIssued(Len(sessions)) < SocketMsgs /\ BeginMatch(s)
    \/ \E s \in Sessions : SumIssued(Len(sessions)) < SocketMsgs /\ EndMatch(s)
    \/ \E s \in Sessions : Disconnecting(s) < MaxDisconnecting /\ On(s, "error", "disconnects")
    \/ \E s \in Sessions : Disconnect(s)

SpecSockets == InitSockets /\ [][NextSockets]_vars

----------------------------------------------------------------------------

(* Claims *)

\* The last operation was a handleWebhook call with a start_match payload.
StartMatchCall == step.op = "handleWebhook" /\ step.input.callType = "start_match"

\* It was a start_match call that passes every check of the claim: assertion verified
\* (and naming no other match), every field present.
ValidStartCall == StartMatchCall /\ step.input.jwt = "valid" /\ step.input.complete

\* C1: a handleWebhook call with a valid start_match payload whose matchId has an
\* entry in the registry returns that entry's MatchClient, constructs and connects
\* nothing, and does not invoke onMatchStart.
C1_IdempotentRedelivery ==
    [][(ValidStartCall /\ step.input.registered)' =>
         /\ step'.ret = "client" /\ step'.err = Null
         /\ step'.s = activeMatches[step'.input.matchId]
         /\ step'.opened = 0 /\ step'.started = 0
         /\ sessions' = sessions /\ activeMatches' = activeMatches]_vars

\* A re-delivery has just been answered with the registered client.
C1_Witness ==
    /\ ValidStartCall /\ step.input.registered
    /\ step.ret = "client" /\ getMatch(step.input.matchId) = step.s

\* A session that is connecting or connected
Live(c) == c.rs = "CONNECTING" \/ c.connected

\* C2: no two sessions of one matchId are connecting or connected at the same time.
C2_AtMostOneLiveSession ==
    \A s1 \in Sessions, s2 \in Sessions :
        (s1 # s2 /\ sessions[s1].matchId = sessions[s2].matchId)
        => ~(Live(sessions[s1]) /\ Live(sessions[s2]))

\* The application messages among what the transport accepted
AppWire(c) == SelectSeq(c.wire, LAMBDA m : m.n > 0)

\* C3: the messages issued before the transport reported open are delivered in the
\* order they were issued, each once, ahead of every message issued after the open;
\* nothing is delivered twice or out of order.
C3_QueuedMessagesInOrder ==
    \A s \in Sessions :
        LET c == sessions[s]
            app == AppWire(c)
        IN /\ ~c.opened => c.wire = <<>>
           /\ c.opened => /\ Len(app) >= c.openAt
                          /\ \A i \in 1..c.openAt : app[i] = JSONstringify(World, c.issued[i])
           /\ \A i \in 1..Len(app) : app[i] = JSONstringify(World, c.issued[app[i].n])
           /\ \A i \in 1..Len(app), j \in 1..Len(app) : i < j => app[i].n < app[j].n

\* Two messages queued before the open and one issued after it have been delivered.
C3_Witness ==
    \E s \in Sessions :
        /\ sessions[s].opened /\ sessions[s].openAt = 2
        /\ Len(AppWire(sessions[s])) = 3

\* C4: once the transport has reported open, the first message it accepted is the
\* authenticate message carrying the session's authToken, ahead of every queued message.
C4_AuthenticateFirst ==
    \A s \in Sessions :
        LET c == sessions[s] IN
        /\ c.opened => c.wire # <<>>
        /\ c.wire # <<>> =>
             c.wire[1] = [messageType |-> "authenticate", body |-> <<c.authToken>>, n |-> 0]

\* beginMatch was issued before the open, and the transport got authenticate, then init_frames.
C4_Witness ==
    \E s \in Sessions :
        /\ sessions[s].openAt >= 1
        /\ Len(sessions[s].wire) >= 2
        /\ sessions[s].wire[1].messageType = "authenticate"
        /\ sessions[s].wire[2].messageType = "init_frames"

\* C5: the transport accepts a message only while the connected flag is true, and a
\* message issued while the flag is false is appended to the queue and not sent.
C5_NoBypassWhileDisconnected ==
    [][\A s \in Sessions :
         /\ sessions'[s].wire # sessions[s].wire => sessions'[s].connected
         /\ (~sessions[s].connected /\ Len(sessions'[s].issued) = Len(sessions[s].issued) + 1)
            => /\ sessions'[s].wire = sessions[s].wire
               /\ sessions'[s].messageQueue =
                    Append(sessions[s].messageQueue,
                           sessions'[s].issued[Len(sessions'[s].issued)])]_vars

\* A message was issued after the transport closed, and it sits in the queue.
C5_Witness ==
    \E s \in Sessions :
        /\ sessions[s].rs = "CLOSED" /\ sessions[s].opened
        /\ step.op \in {"beginMatch", "sendStateUpdate", "endMatch"} /\ step.s = s
        /\ sessions[s].messageQueue # <<>>

\* C6: a start_match call whose jwtData fails verification is rejected with the
\* invalid-credential error; it constructs no session, opens no connection, leaves
\* the registry as it was and does not invoke onMatchStart.
C6_InvalidCredentialRejected ==
    [][(StartMatchCall /\ step.input.jwt = "invalid")' =>
         /\ step'.err = ErrInvalidJwt /\ step'.ret = "none"
         /\ step'.opened = 0 /\ step'.started = 0
         /\ sessions' = sessions /\ activeMatches' = activeMatches]_vars

\* A start_match call with a forged or expired assertion has just been rejected.
C6_Witness == StartMatchCall /\ step.input.jwt = "invalid" /\ step.err = ErrInvalidJwt

\* C7: a start_match call whose verified claim set names another match than the
\* payload's matchId is rejected with the invalid-credential error and creates
\* no session and no registry entry.
C7_ClaimMismatchRejected ==
    [][(StartMatchCall /\ step.input.jwt = "mismatch")' =>
         /\ step'.err = ErrInvalidJwt
         /\ sessions' = sessions /\ activeMatches' = activeMatches]_vars

\* C8: after the close event of a session's transport, getMatch of its matchId
\* no longer returns the session.
C8_CloseEvictsEntry ==
    step.op = "wsClose" => getMatch(sessions[step.s].matchId) # step.s

\* onMatchStart has been invoked by the call that made session s.
CallbackInvoked(s) ==
    \/ sessions[s].hwpc \in {"callback", "threwCallback"}
    \/ sessions[s].hwpc = "returned" /\ config.onMatchStart

\* C9: onMatchStart is invoked only by the call that made the session, with that
\* session, after its connect() resolved; a call whose connect() rejected never invokes it.
C9_CallbackOnlyAfterConnect ==
    /\ step.started # 0 =>
         /\ step.s = step.started
         /\ sessions[step.started].hwpc = "callback"
         /\ config.onMatchStart
    /\ \A s \in Sessions :
         (step.started = s \/ CallbackInvoked(s)) =>
             /\ sessions[s].promise = "resolved"
             /\ sessions[s].opened

\* onMatchStart has just been invoked with a session whose connect() resolved.
C9_Witness == step.started # 0 /\ sessions[step.started].promise = "resolved"

\* C10: a MatchClient that handleWebhook resolves with is connected at that moment,
\* unless disconnect() was called on it.
C10_ResolvedClientConnected ==
    (step.ret = "client" /\ sessions[step.s].websocket # Null)
    => isConnected(sessions[step.s])

\* C11: when a session is closed, by the close event of its transport or by
\* disconnect(), its tracking timer is cancelled and its tracked state released, and
\* no timer tick issues a state update for a closed session.
C11_ClosedCancelsTimer ==
    \A s \in Sessions :
        /\ (step.op \in {"wsClose", "disconnect"} /\ step.s = s)
           => /\ sessions[s].stateIntervalId = Null
              /\ sessions[s].trackedState = Null
        /\ (step.op = "timerTick" /\ step.s = s) => ~sessions[s].closed

\* C12: once disconnect() has been called on a session that tracked a state, the
\* tracking timer is cancelled and the tracked state released by the call, and the
\* transport accepts no scene_frames message from then on.
C12_NoFrameAfterDisconnect ==
    \A s \in Sessions :
        LET c == sessions[s] IN
        /\ (step.op = "disconnect" /\ step.s = s)
           => c.stateIntervalId = Null /\ c.trackedState = Null
        /\ c.discAt > 0 =>
             \A i \in c.discAt..Len(c.wire) : c.wire[i].messageType # "scene_frames"

\* A timer tick finds session s able to send: connected, with its socket open.
TickSends(s) ==
    /\ step'.op = "timerTick" /\ step'.s = s
    /\ sessions[s].connected /\ sessions[s].websocket # Null /\ sessions[s].rs = "OPEN"

\* C13: a timer tick of a session that can send hands the transport one scene_frames
\* message whose single frame is what the tracked object holds at the tick, whatever
\* it held when trackState was called.
C13_TrackedByReference ==
    [][\A s \in Sessions :
         TickSends(s) =>
           sessions'[s].wire =
             Append(sessions[s].wire,
                    [messageType |-> "scene_frames",
                     body |-> <<heap[sessions[s].trackedObj]>>,
                     n |-> Len(sessions[s].issued) + 1])]_vars

\* A tick has just sent the tracked object with content written after trackState.
C13_Witness ==
    \E s \in Sessions :
        LET c == sessions[s] IN
        /\ step.op = "timerTick" /\ step.s = s
        /\ c.trackedObj # Null /\ c.wire # <<>>
        /\ c.wire[Len(c.wire)].n = Len(c.issued)
        /\ c.wire[Len(c.wire)].body = <<heap[c.trackedObj]>>
        /\ heap[c.trackedObj] # c.trackedAs

\* C14: inbound data that is not JSON, or is a JSON primitive, is ignored: the
\* session emits no event, nothing is thrown, and the session and the registry stay
\* as they were.
C14_MalformedInboundIgnored ==
    [][(step'.op = "wsMessage" /\ JSONparse(step'.data) \in {"throw", "primitive"}) =>
         /\ step'.emitted = <<>> /\ step'.err = Null /\ step'.onErr = 0
         /\ sessions' = sessions /\ activeMatches' = activeMatches]_vars

\* The last operation was a handleWebhook call with a request_teams payload whose
\* assertion verifies.
TeamsCall ==
    /\ step.op = "handleWebhook"
    /\ step.input.callType = "request_teams" /\ step.input.jwt = "valid"

\* C15: a request_teams call with a valid assertion and no onRequestTeams configured
\* is rejected with the no-provider error and changes neither sessions nor registry.
C15_NoTeamProviderRejected ==
    [][(TeamsCall /\ ~config.onRequestTeams)' =>
         /\ step'.err = ErrNoTeams /\ step'.ret = "none" /\ step'.teamsCalls = 0
         /\ sessions' = sessions /\ activeMatches' = activeMatches]_vars

\* Such a call has just been rejected while a match is registered.
C15_Witness ==
    /\ TeamsCall /\ ~config.onRequestTeams /\ step.err = ErrNoTeams
    /\ \E m \in MatchIds : getMatch(m) # 0

\* C16: a request_teams call with a valid assertion and a configured provider
\* invokes the provider once; it returns what the provider gave, or is rejected with
\* the provider's failure; it constructs no session, opens no connection and leaves
\* the registry as it was.
C16_TeamsFromProvider ==
    [][(TeamsCall /\ config.onRequestTeams)' =>
         /\ step'.teamsCalls = 1
         /\ \/ step'.provided = "teams" /\ step'.ret = "teams" /\ step'.err = Null
            \/ step'.provided = ErrProvider /\ step'.ret = "none" /\ step'.err = ErrProvider
         /\ step'.opened = 0 /\ step'.started = 0
         /\ sessions' = sessions /\ activeMatches' = activeMatches]_vars

\* A provider failure has just been passed on while a match is registered.
C16_Witness ==
    /\ TeamsCall /\ config.onRequestTeams
    /\ step.teamsCalls = 1 /\ step.err = ErrProvider
    /\ \E m \in MatchIds : getMatch(m) # 0

\* C17: when onMatchStart fails, the handleWebhook call is rejected with that error,
\* config.onError (if configured) gets it once, and the session and the registry
\* stay as they were: a connected, registered session remains so.
C17_CallbackFailureKeepsSession ==
    [][step'.op = "callbackReject" =>
         /\ step'.err = ErrCallback /\ step'.ret = "none"
         /\ step'.onErr = (IF config.onError THEN 1 ELSE 0)
         /\ config.onError => step'.sink = ErrCallback
         /\ activeMatches' = activeMatches
         /\ sessions' = [sessions EXCEPT ![step'.s].hwpc = "threwCallback"]]_vars

\* onMatchStart has just failed on a session that is connected and registered, and
\* config.onError was given the error.
C17_Witness ==
    /\ step.op = "callbackReject" /\ step.sink = ErrCallback
    /\ isConnected(sessions[step.s])
    /\ getMatch(sessions[step.s].matchId) = step.s

\* The error a handleWebhook call must fail with, by what it was given; Null when
\* the input alone decides no failure.
ExpectedError ==
    LET i == step.input IN
    CASE step.op = "callbackReject" -> ErrCallback
      [] step.op # "handleWebhook" -> Null
      [] i.jwt = "absent" -> ErrMissingJwt
      [] i.jwt = "invalid" -> ErrInvalidJwt
      [] i.callType = "request_teams" /\ ~config.onRequestTeams -> ErrNoTeams
      [] i.callType = "request_teams" /\ step.provided = ErrProvider -> ErrProvider
      [] i.callType = "ping" -> ErrUnknownCallType
      [] OTHER -> Null

\* C18: a failing handleWebhook call is rejected with its error and returns nothing,
\* and config.onError, when configured, is invoked once for it, with that error;
\* every kind of failure is rejected with the error of its kind.
C18_FailureSurfacedOnce ==
    /\ step.err # Null =>
         /\ step.ret = "none"
         /\ step.onErr = (IF config.onError THEN 1 ELSE 0)
         /\ config.onError => step.sink = step.err
    /\ ExpectedError # Null => step.err = ExpectedError
    /\ (StartMatchCall /\ step.input.jwt \in {"valid", "mismatch"} /\ ~step.input.complete)
       => step.err \in {ErrMissingAuthToken, ErrMissingMatchId, ErrMissingWsUrl}
    /\ \A s \in Sessions :
         (step.s = s /\ sessions[s].hwpc = "threwConnect"
            /\ (step.op = "wsError" \/ (StartMatchCall /\ ~step.input.registered)))
         => step.err = ErrTransport

\* A connection failure has just rejected the call that awaited it, and config.onError
\* was given the transport's error once.
C18_Witness ==
    /\ step.op = "wsError" /\ step.err = ErrTransport
    /\ step.onErr = 1 /\ step.sink = ErrTransport

\* C19: the session a start_match call constructs has the payload's matchId, and
\* when the call resolves with it (connected, callback done, no disconnect() called
\* on it) getMatch of that matchId returns the same session.
C19_ResolvedSessionRegistered ==
    /\ (StartMatchCall /\ step.opened = 1)
       => sessions[step.s].matchId = step.input.matchId
    /\ (step.op \in {"wsOpen", "callbackResolve"} /\ step.ret = "client"
          /\ sessions[step.s].websocket # Null)
       => getMatch(sessions[step.s].matchId) = step.s

\* C20: once a session was closed, by a close event or by disconnect(), its
\* connected flag stays false and its transport accepts nothing more.
C20_ClosedIsTerminal ==
    \A s \in Sessions :
        sessions[s].closed =>
            /\ ~sessions[s].connected
            /\ Len(sessions[s].wire) = sessions[s].closedAt

\* C21: a disconnect() call leaves the session without a tracking timer, without a
\* tracked state, without a transport handle, marked disconnected and with its
\* transport no longer connecting or open; a disconnect() call that follows another
\* one on the same session changes nothing and closes nothing.
C21_DisconnectIdempotent ==
    [][step'.op \in {"disconnect", "disconnectAgain"} =>
         LET before == sessions[step'.s]
             after == sessions'[step'.s]
         IN /\ after.stateIntervalId = Null /\ after.trackedState = Null
            /\ after.websocket = Null /\ ~isConnected(after)
            /\ after.rs \notin {"CONNECTING", "OPEN"}
            /\ step'.emitted = <<>>
            /\ step'.op = "disconnectAgain" =>
                 /\ sessions' = sessions /\ activeMatches' = activeMatches
                 /\ after.rs = before.rs]_vars

\* A second disconnect() has just been called on a session whose first one found it
\* connected and tracking a state.
C21_Witness ==
    /\ step.op = "disconnectAgain"
    /\ sessions[step.s].opened /\ sessions[step.s].discAt > 0
    /\ sessions[step.s].rs = "CLOSING"


\* A handleWebhook call has settled in the last operation.
Settled == step.ret # "none" \/ step.err # Null

\* What the Express adapter answers to the request whose handleWebhook call has
\* settled in the last operation, and what the plain HTTP adapter answers when the
\* request was a POST with a JSON body.
Response == createExpressHandler(step.ret, step.err, matchIdOf(World, step.ret, step.s))

HttpResponse ==
    createHttpHandler("POST", "{}", step.ret, step.err, matchIdOf(World, step.ret, step.s))

\* C22: when a request_teams call resolves with the teams onRequestTeams gave, the
\* adapter's response carries those teams.
C22_TeamsInResponse ==
    (TeamsCall /\ step.ret = "teams") => Response.teams = step.provided

\* C23: when a handleWebhook call settles, each adapter answers with status 400 and
\* the error's message if and only if the call was rejected, and with status 200 and
\* a match identifier if and only if it resolved.
C23_OneResponsePerRequest ==
    Settled =>
        \A r \in {Response, HttpResponse} :
            /\ (r.status = 400 /\ r.error = step.err) <=> step.err # Null
            /\ (r.status = 200 /\ r.matchId # Undefined) <=> step.ret # "none"


\* C24: after disconnectAll() no match is registered and every session that was
\* registered is disconnected and has released its transport; after a
\* disconnectMatch(id) that found a session, getMatch(id) returns nothing and that
\* session is disconnected; a disconnectMatch(id) that found none changes nothing.
C24_RegistryDisconnects ==
    [][/\ step'.op = "disconnectAll" =>
            \A m \in MatchIds :
                /\ getMatch(m)' = 0
                /\ getMatch(m) # 0 =>
                     /\ ~isConnected(sessions'[getMatch(m)])
                     /\ sessions'[getMatch(m)].websocket = Null
                     /\ sessions'[getMatch(m)].rs \notin {"CONNECTING", "OPEN"}
       /\ (step'.op = "disconnectMatch" /\ step'.s # 0) =>
            /\ getMatch(sessions[step'.s].matchId) = step'.s
            /\ activeMatches'[sessions[step'.s].matchId] = 0
            /\ ~isConnected(sessions'[step'.s])
            /\ sessions'[step'.s].websocket = Null
            /\ sessions'[step'.s].rs \notin {"CONNECTING", "OPEN"}
       /\ (step'.op = "disconnectMatch" /\ step'.s = 0) =>
            sessions' = sessions /\ activeMatches' = activeMatches]_vars

\* disconnectAll() has just been called with two sessions registered whose
\* connections were open.
C24_Witness ==
    /\ step.op = "disconnectAll"
    /\ \A m \in MatchIds : getMatch(m) = 0
    /\ \E s1, s2 \in Sessions :
         /\ sessions[s1].matchId # sessions[s2].matchId
         /\ \A s \in {s1, s2} : /\ sessions[s].opened /\ sessions[s].hwpc = "returned"
                                /\ sessions[s].rs = "CLOSING" /\ sessions[s].closedAt > 0

\* The handleWebhook call that constructed the session registered for matchId m has
\* not settled: it is suspended in connect() or in onMatchStart.
FirstInFlight(m) ==
    /\ m # "" /\ activeMatches[m] # 0
    /\ sessions[activeMatches[m]].hwpc \in {"awaitConnect", "callback"}

\* C25: a valid start_match call that arrives while the call that constructed the
\* session of its matchId is suspended in connect() or in onMatchStart constructs no
\* MatchClient, opens no connection, invokes no callback and resolves with that
\* session; and onMatchStart is invoked only by the resolution of connect() in the
\* call that constructed the session, hence at most once for it.
C25_ConcurrentRedelivery ==
    [][/\ (ValidStartCall' /\ FirstInFlight(step'.input.matchId)) =>
            /\ Len(sessions') = Len(sessions) /\ sessions' = sessions
            /\ activeMatches' = activeMatches
            /\ step'.opened = 0 /\ step'.started = 0
            /\ step'.ret = "client" /\ step'.err = Null
            /\ step'.s = getMatch(step'.input.matchId)
       /\ step'.started # 0 =>
            /\ step'.started \in Sessions
            /\ sessions[step'.started].hwpc = "awaitConnect"
            /\ sessions'[step'.started].hwpc = "callback"]_vars

\* A second valid start_match call for a matchId has just resolved while the first
\* is suspended in onMatchStart.
C25_Witness ==
    /\ ValidStartCall /\ step.input.registered
    /\ step.ret = "client" /\ step.s # 0
    /\ sessions[step.s].hwpc = "callback"
    /\ sessions[step.s].matchId = step.input.matchId


\* C26: when the transport opens, each connect handler and the resolution of
\* connect() find the session marked connected, the queue empty, authenticate sent
\* first and every message that was queued sent after it; a connect handler runs
\* before connect() resolves; exactly one connect event is emitted.
C26_OpenSequence ==
    [][step'.op = "wsOpen" =>
         /\ step'.emitted = <<"connect">>
         /\ \A i \in DOMAIN step'.seen :
              LET o == step'.seen[i] IN
              /\ o.connected /\ o.auth /\ o.queue = 0
              /\ o.sent = 1 + Len(sessions[step'.s].messageQueue)
              /\ o.sent = Len(sessions'[step'.s].wire)
              /\ o.by = "handler" => o.promise = "pending"
              /\ o.by = "resolve" => i = Len(step'.seen)
         /\ ~step'.uncaught =>
              /\ step'.seen # <<>> /\ step'.seen[Len(step'.seen)].by = "resolve"
              /\ sessions'[step'.s].promise = "resolved"]_vars

\* The transport has just opened on a session with queued messages and a connect
\* handler of the application: the handler ran, then connect() resolved.
C26_Witness ==
    /\ step.op = "wsOpen"
    /\ Len(step.seen) >= 2
    /\ step.seen[1].by = "handler" /\ step.seen[1].sent >= 2
    /\ step.seen[Len(step.seen)].by = "resolve"

\* C27: once the transport of a session has reported open, error or close, the
\* promise of its connect() call is settled.
C27_ConnectSettles ==
    \A s \in Sessions :
        sessions[s].rs \in {"OPEN", "CLOSING", "CLOSED"} => sessions[s].promise # "pending"


\* C28: a transport error event makes the session emit one error event and changes
\* neither its connected flag, its queue, its tracked state and timer, its transport
\* handle, what it has sent, any other session, nor the registry.
C28_ErrorEventFrame ==
    [][step'.op = "wsError" =>
         LET before == sessions[step'.s]
             after == sessions'[step'.s]
         IN /\ step'.emitted = <<"error">>
            /\ isConnected(after) = isConnected(before)
            /\ after.messageQueue = before.messageQueue
            /\ after.trackedState = before.trackedState
            /\ after.stateIntervalId = before.stateIntervalId
            /\ after.websocket = before.websocket
            /\ after.wire = before.wire
            /\ \A t \in Sessions \ {step'.s} : sessions'[t] = sessions[t]
            /\ activeMatches' = activeMatches]_vars

\* A transport error has just occurred on a connected, registered session that
\* tracks a state, and was handed to config.onError.
C28_Witness ==
    /\ step.op = "wsError" /\ step.emitted = <<"error">> /\ step.onErr = 1
    /\ isConnected(sessions[step.s]) /\ sessions[step.s].trackedState # Null
    /\ getMatch(sessions[step.s].matchId) = step.s

\* C29: a transport error on a session whose connect() has resolved and which is
\* connected is handed to config.onError, when one is configured.
C29_OpenErrorsReachSink ==
    (/\ step.op = "wsError" /\ config.onError
     /\ sessions[step.s].promise = "resolved" /\ isConnected(sessions[step.s]))
    => step.onErr = 1 /\ step.sink = ErrTransport

\* C30: a session that was closed, by a close event or by disconnect(), has an
\* empty queue.
C30_ClosedQueueEmpty ==
    \A s \in Sessions : sessions[s].closed => sessions[s].messageQueue = <<>>


\* C31: a session has at most one interval set, and has one exactly when it holds a
\* timer id; trackState makes the state it is given the tracked one; each tick of
\* the timer issues exactly one scene_frames message whose only frame is the state
\* the latest trackState call was given.
C31_OneTracker ==
    [][/\ \A s \in 1..Len(sessions') :
            /\ sessions'[s].timers <= 1
            /\ sessions'[s].timers = 1 <=> sessions'[s].stateIntervalId # Null
       /\ step'.op = "trackState" =>
            sessions'[step'.s].trackedState = sessions'[step'.s].trackedObj
       /\ step'.op = "timerTick" =>
            LET before == sessions[step'.s]
                after == sessions'[step'.s]
            IN /\ Len(after.issued) = Len(before.issued) + 1
               /\ after.issued[Len(after.issued)].messageType = "scene_frames"
               /\ after.issued[Len(after.issued)].body = <<before.trackedObj>>
               /\ after.trackedState = before.trackedState
               /\ after.timers = before.timers]_vars

\* The timer has just ticked for a second tracked state, after it had ticked for a
\* first one: the first frame was issued before, the second one now.
C31_Witness ==
    /\ step.op = "timerTick" /\ sessions[step.s].timers = 1
    /\ LET issued == sessions[step.s].issued IN
       /\ Len(issued) >= 2
       /\ issued[Len(issued)].body # issued[1].body
       /\ issued[Len(issued)].body = <<sessions[step.s].trackedState>>


\* C32: an operation in which the session emits an event calls the handlers
\* registered for that event before it, all of them, once per registration and in
\* registration order, and no others.
C32_HandlersInOrder ==
    [][Len(step'.emitted) = 1 =>
         step'.ran = sessions[step'.s].eventHandlers[step'.emitted[1]]]_vars


\* C33: handleWebhook fails in a fixed order: with the missing-credential error when
\* jwtData is absent; else with invalid-credential when verification fails, whatever
\* the call type; else with the unknown-call-type error when the call type is not
\* known; else, for start_match, with a missing-field error when authToken, matchId
\* or wsUrl is absent. Such a call returns nothing, constructs no session, opens no
\* connection, invokes no callback and leaves the registry as it was.
C33_CheckOrder ==
    [][step'.op = "handleWebhook" =>
         LET i == step'.input
             failure == CASE i.jwt = "absent" -> {ErrMissingJwt}
                          [] i.jwt = "invalid" -> {ErrInvalidJwt}
                          [] i.callType \notin {"request_teams", "start_match"} ->
                               {ErrUnknownCallType}
                          [] i.callType = "start_match" /\ ~i.complete ->
                               {ErrMissingAuthToken, ErrMissingMatchId, ErrMissingWsUrl}
                          [] OTHER -> {}
         IN failure # {} =>
              /\ step'.err \in failure /\ step'.ret = "none"
              /\ step'.opened = 0 /\ step'.started = 0 /\ step'.teamsCalls = 0
              /\ sessions' = sessions /\ activeMatches' = activeMatches]_vars

\* A call of unknown type with a forged or expired assertion has just been rejected
\* with the invalid-credential error, while a match is registered.
C33_Witness ==
    /\ step.op = "handleWebhook" /\ step.input.callType = "ping"
    /\ step.input.jwt = "invalid" /\ step.err = ErrInvalidJwt
    /\ \E m \in MatchIds : getMatch(m) # 0


\* The registry gains the entry of a session a handleWebhook call has just constructed.
RegistryInsert ==
    /\ step'.op = "handleWebhook" /\ Len(sessions') = Len(sessions) + 1
    /\ \E m \in MatchIds :
         /\ activeMatches[m] = 0
         /\ activeMatches' = [activeMatches EXCEPT ![m] = Len(sessions')]
         /\ sessions'[Len(sessions')].matchId = m

\* The close event of a session's transport removes the entry under its matchId.
RegistryDeleteOnClose ==
    /\ step'.op = "wsClose"
    /\ activeMatches' = [activeMatches EXCEPT ![sessions[step'.s].matchId] = 0]

C35_CloseRemovesOwnEntry ==
    [][step'.op = "wsClose" =>
         \A m \in MatchIds :
             activeMatches[m] # step'.s => activeMatches'[m] = activeMatches[m]]_vars


C40_TrackedIffTimer ==
    [][\A s \in 1..Len(sessions') :
         LET c2 == sessions'[s] IN
         /\ (c2.trackedState # Null) <=> (c2.stateIntervalId # Null)
         /\ c2.timers = IF c2.stateIntervalId # Null THEN 1 ELSE 0
         /\ (step'.op = "trackState" /\ step'.s = s) =>
               c2.trackedState # Null /\ c2.stateIntervalId # Null
         /\ (step'.op = "disconnect" /\ step'.s = s) =>
               c2.trackedState = Null /\ c2.stateIntervalId = Null
         /\ (s \in Sessions /\ (c2.trackedState # sessions[s].trackedState
                                 \/ c2.stateIntervalId # sessions[s].stateIntervalId
                                 \/ c2.timers # sessions[s].timers)) =>
               step'.op \in {"trackState", "disconnect"} /\ step'.s = s
         /\ s \notin Sessions => c2.trackedState = Null /\ c2.stateIntervalId = Null]_vars

\* disconnect() has just been called on a session that tracked a state and has
\* sent frames of it: neither the reference nor the timer is left.
C40_Witness ==
    /\ step.op = "disconnect" /\ step.s \in Sessions
    /\ sessions[step.s].discAt > 0
    /\ \E i \in DOMAIN sessions[step.s].wire : sessions[step.s].wire[i].messageType = "scene_frames"
    /\ sessions[step.s].trackedState = Null /\ sessions[step.s].stateIntervalId = Null
    /\ sessions[step.s].timers = 0


\* C36: the flush of the open handler ends and leaves the queue empty.
C36_FlushTerminates ==
    [][step'.op \in {"wsOpen", "orphanOpen"} =>
         ~hung' /\ sessions'[step'.s].messageQueue = <<>>]_vars

\* The session is connected with a WebSocket that is not open, so that send throws.
SendFails(c) == c.connected /\ c.websocket # Null /\ WsSend(c.rs) = "throw"

\* C38: when WebSocket.send throws in beginMatch or endMatch on a connected session,
\* one error event is emitted and every registered error handler runs, nothing is
\* thrown to the caller, and the message is neither put on the queue nor handed to
\* the transport.
C38_SendFailureReported ==
    [][\A s \in Sessions :
         (step'.op \in {"beginMatch", "endMatch"} /\ step'.s = s /\ SendFails(sessions[s])) =>
            /\ step'.emitted = <<"error">>
            /\ step'.ran = sessions[s].eventHandlers["error"]
            /\ ~step'.uncaught /\ step'.err = Null
            /\ sessions'[s].messageQueue = sessions[s].messageQueue
            /\ sessions'[s].wire = sessions[s].wire
            /\ Len(sessions'[s].issued) = Len(sessions[s].issued) + 1
            /\ ~hung']_vars

\* A message was just issued on a connected session whose WebSocket refused it; the
\* handler the SDK registered and a handler of the application ran.
C38_Witness ==
    /\ step.op \in {"beginMatch", "endMatch"} /\ step.emitted = <<"error">>
    /\ Len(step.ran) = 2 /\ step.onErr = 1
    /\ sessions[step.s].messageQueue = <<>>
    /\ sessions[step.s].issued # <<>>

\* C39: a session whose connected flag is set holds its transport handle.
C39_ConnectedHasHandle ==
    \A s \in Sessions : sessions[s].connected => sessions[s].websocket # Null

====
